---- MODULE Spec2Model ----
(***************************************************************************)
(* Model of rf/rfstream.py: the header codec of RFTrace, the geometry      *)
(* engine rfstats/obj2stats and the receiver function pipeline RFStream.rf *)
(* Three specifications share the variables: SpecCodec, SpecStats, SpecRF. *)
(* Times are whole seconds; a canonical value is a record [k, v] whose k   *)
(* is "utc" for an absolute time (UTCDateTime) and "num" for a number.     *)
(***************************************************************************)
EXTENDS Integers, Sequences, FiniteSets, TLC

VARIABLES
    st,        \* stats of the trace held in memory (codec)
    file,      \* what the waveform writer persisted last (codec)
    rd,        \* stats of the trace read back by read_rf (codec)
    op,        \* the codec operation that ran last and its format
    cexc,      \* exception the last codec operation raised, or "none"
    cwarn,     \* warnings the last codec operation emitted
    gs,        \* rfstats: the stats of the traces, one canonical mapping each
    genv,      \* rfstats: the arguments of the call and the travel time table
    gpc,       \* rfstats: "init", then the function that was called
    gret,      \* rfstats: what the call returned
    gexc,      \* rfstats: exception the call raised, or "none"
    gwarn,     \* rfstats: warnings the call emitted
    heap,      \* pipeline: the trace objects, by identity
    traces,    \* pipeline: self.traces, the identities in order
    subs,      \* pipeline: the traces of the streams the grouper yielded last
    rfp,       \* pipeline: the arguments of the running call
    rpc,       \* pipeline: "idle", the stage rf is about to run, "done",
               \* "raised", or "rotated", "deconvolved", "stacked" after
               \* a direct call
    rexc,      \* pipeline: exception the call raised, or "none"
    calls,     \* pipeline: the primitives of the waveform library invoked
    stacked    \* pipeline: the traces of the stream stack returned

cvars == <<st, file, rd, op, cexc, cwarn>>
gvars == <<gs, genv, gpc, gret, gexc, gwarn>>
rvars == <<heap, traces, subs, rfp, rpc, rexc, calls, stacked>>
vars == <<cvars, gvars, rvars>>

(***************************************************************************)
(* Bounds                                                                  *)
(***************************************************************************)
\* at most this many canonical fields are set on the initial trace
MaxPresent == 2
\* at most this many traces in the stream handed to rfstats
MaxStream == 2
\* at most this many traces in the stream of the pipeline
MaxTraces == 3
\* samples of a trace of the pipeline
NPts == 4

(***************************************************************************)
(* Header registry, lines 35-60                                            *)
(***************************************************************************)
STATION_GETTER == <<"station_latitude", "station_longitude", "station_elevation">>

EVENT_GETTER ==
    <<"event_latitude", "event_longitude", "event_depth", "event_magnitude",
      "event_time">>

HEADERS ==
    STATION_GETTER \o EVENT_GETTER \o
    <<"onset", "distance", "back_azimuth", "inclination", "slowness",
      "pp_latitude", "pp_longitude", "pp_depth">>

FORMATHEADERS ==
    [sac |-> <<"stla", "stlo", "stel", "evla", "evlo", "evdp", "mag",
               "o", "a", "gcarc", "baz", "user0", "user1", "user2", "user3",
               "user4">>,
     sh  |-> <<"COMMENT", "COMMENT", "COMMENT", "LAT", "LON", "DEPTH",
               "MAGNITUDE", "ORIGIN", "P-ONSET", "DISTANCE", "AZIMUTH",
               "INCI", "SLOWNESS", "COMMENT", "COMMENT", "COMMENT">>]

\* the (format, field) pairs that have a conversion pair
_HEADER_CONVERSIONS == [sac |-> {"onset", "event_time"}, sh |-> {}]

(***************************************************************************)
(* Values, mappings and text                                               *)
(***************************************************************************)
Num(n) == [k |-> "num", v |-> n]
Utc(n) == [k |-> "utc", v |-> n]
TypeError == [k |-> "TypeError", v |-> 0]
KeyError == [k |-> "KeyError", v |-> 0]

Empty == [x \in {} |-> Num(0)]

\* d[key] = val on a mapping
Put(d, key, val) == [x \in (DOMAIN d) \cup {key} |-> IF x = key THEN val ELSE d[x]]

\* d.update(e)
Update(d, e) == [x \in (DOMAIN d) \cup (DOMAIN e) |-> IF x \in DOMAIN e THEN e[x] ELSE d[x]]

DigitChars == <<"0", "1", "2", "3", "4", "5", "6", "7", "8", "9">>

RECURSIVE Digits(_)
Digits(n) == IF n < 10 THEN <<DigitChars[n + 1]>>
             ELSE Digits(n \div 10) \o <<DigitChars[(n % 10) + 1]>>

\* str(value) of a whole number, as its characters
Str(n) == IF n < 0 THEN <<"-">> \o Digits(0 - n) ELSE Digits(n)

DigitOf(c) == CHOOSE d \in 0..9 : DigitChars[d + 1] = c

RECURSIVE ParseNat(_)
ParseNat(s) == IF Len(s) = 0 THEN 0
               ELSE 10 * ParseNat(SubSeq(s, 1, Len(s) - 1)) + DigitOf(s[Len(s)])

\* the number a JSON number text denotes
ParseInt(s) == IF s[1] = "-" THEN 0 - ParseNat(Tail(s)) ELSE ParseNat(s)

\* pat in s, for sequences of characters
IsSubstring(pat, s) ==
    \E i \in 1..(Len(s) - Len(pat) + 1) : SubSeq(s, i, i + Len(pat) - 1) = pat

\* the text of SAC's "unset" value that line 357 looks for
SacUnset == <<"-", "1", "2", "3", "4", "5">>

\* '-12345' in str(value)
HasSacUnset(value) == IsSubstring(SacUnset, Str(value.v))

RECURSIVE DumpItems(_, _, _)
DumpItems(comment, i, first) ==
    IF i > Len(HEADERS) THEN <<>>
    ELSE IF HEADERS[i] \in DOMAIN comment
         THEN (IF first THEN <<>> ELSE <<",">>)
              \o <<HEADERS[i], ":">> \o Str(comment[HEADERS[i]].v)
              \o DumpItems(comment, i + 1, FALSE)
         ELSE DumpItems(comment, i + 1, first)

\* json.dumps(comment, separators=(',', ':')): the text as tokens, a key
\* being one token and a number its characters
JsonDumps(comment) == <<"{">> \o DumpItems(comment, 1, TRUE) \o <<"}">>

NumberEnd(text, i) == CHOOSE j \in i..Len(text) :
    /\ text[j] \in {",", "}"}
    /\ \A m \in i..(j - 1) : text[m] \notin {",", "}"}

RECURSIVE LoadItems(_, _, _)
LoadItems(text, i, acc) ==
    IF text[i] = "}" THEN acc
    ELSE IF text[i] = "," THEN LoadItems(text, i + 1, acc)
    ELSE LET j == NumberEnd(text, i + 2)
         IN  LoadItems(text, j,
                       Put(acc, text[i], Num(ParseInt(SubSeq(text, i + 2, j - 1)))))

\* json.loads(value)
JsonLoads(text) == LoadItems(text, 2, Empty)

(***************************************************************************)
(* Header codec, lines 25-32 and 304-410                                   *)
(***************************************************************************)
\* str.lower() and str.upper() on the format names in use
Lower(f) == CASE f \in {"SAC", "sac"} -> "sac"
              [] f \in {"Q", "q"} -> "q"
              [] f \in {"SH", "sh"} -> "sh"
              [] f \in {"H5", "h5"} -> "h5"
              [] OTHER -> "mseed"

Upper(f) == CASE f \in {"SAC", "sac"} -> "SAC"
              [] f \in {"Q", "q"} -> "Q"
              [] f \in {"SH", "sh"} -> "SH"
              [] f \in {"H5", "h5"} -> "H5"
              [] OTHER -> "MSEED"

\* st[format], the native sub-mapping
Native(s, format) == IF format = "sac" THEN s.sac ELSE s.sh

SetNative(s, format, m) ==
    IF format = "sac" THEN [s EXCEPT !.sac = m] ELSE [s EXCEPT !.sh = m]

\* get_sac_reftime(stats.sac) + stats[head]; adding two UTCDateTime is a
\* TypeError, a missing stats[head] a KeyError
__SAC2UTC(s, head) ==
    IF head \notin DOMAIN s.canon THEN KeyError
    ELSE IF s.canon[head].k = "num" THEN Utc(s.reftime + s.canon[head].v)
    ELSE TypeError

\* stats[head] - get_sac_reftime(stats.sac); a number minus a UTCDateTime is
\* a TypeError
__UTC2SAC(s, head) ==
    IF head \notin DOMAIN s.canon THEN KeyError
    ELSE IF s.canon[head].k = "utc" THEN Num(s.canon[head].v - s.reftime)
    ELSE TypeError

\* obspy_to_sac_header(stats): a header whose reference time is starttime
obspy_to_sac_header(s) ==
    [s EXCEPT !.has = @ \cup {"sac"}, !.sac = Empty, !.reftime = s.starttime]

RECURSIVE WriteHeaders(_, _, _)
\* the loop of lines 392-408 from position i of header_map on
WriteHeaders(acc, format, i) ==
    IF i > Len(HEADERS) \/ acc.exc # "none" THEN acc
    ELSE LET head == HEADERS[i]
             head_format == FORMATHEADERS[format][i]
             s == acc.st
         IN  IF format = "sh" /\ head_format = "COMMENT"
             THEN WriteHeaders(
                      [acc EXCEPT !.comment =
                          IF head \in DOMAIN s.canon
                          THEN Put(@, head, s.canon[head]) ELSE @],
                      format, i + 1)
             ELSE IF head \notin DOMAIN s.canon
             THEN WriteHeaders(acc, format, i + 1)
             ELSE LET val == IF head \in _HEADER_CONVERSIONS[format]
                             THEN __UTC2SAC(s, head) ELSE s.canon[head]
                  IN  IF val.k = "TypeError"
                      THEN [acc EXCEPT !.exc = "TypeError"]
                      ELSE WriteHeaders(
                               [acc EXCEPT !.st = SetNative(
                                   s, format, Put(Native(s, format), head_format, val))],
                               format, i + 1)

\* RFTrace._write_format_specific_header(format): [st, exc, warn]
_write_format_specific_header(s, fmt) ==
    LET format == IF Lower(fmt) = "q" THEN "sh" ELSE Lower(fmt)
    IN  IF format = "h5" THEN [st |-> s, exc |-> "none", warn |-> 0]
        ELSE IF format \notin DOMAIN FORMATHEADERS
        THEN [st |-> s, exc |-> "none", warn |-> 1]
        ELSE LET s1 == IF format = "sac" /\ "sac" \notin s.has
                       THEN obspy_to_sac_header(s) ELSE s
                 s2 == IF format \in s1.has THEN s1
                       ELSE SetNative([s1 EXCEPT !.has = @ \cup {format}], format, Empty)
                 r == WriteHeaders([st |-> s2, comment |-> Empty, exc |-> "none"],
                                   format, 1)
                 s3 == IF r.exc = "none" /\ format = "sh" /\ DOMAIN r.comment # {}
                       THEN [r.st EXCEPT !.sh = Put(@, "COMMENT", JsonDumps(r.comment))]
                       ELSE r.st
             IN  [st |-> s3, exc |-> r.exc, warn |-> 0]

RECURSIVE ReadHeaders(_, _, _)
\* the loop of lines 349-368 from position i of header_map on
ReadHeaders(acc, format, i) ==
    IF i > Len(HEADERS) \/ acc.exc # "none" THEN acc
    ELSE LET head == HEADERS[i]
             head_format == FORMATHEADERS[format][i]
             s == acc.st
         IN  IF format = "sh" /\ acc.read_comment
             THEN ReadHeaders(acc, format, i + 1)
             ELSE IF format \notin s.has \/ head_format \notin DOMAIN Native(s, format)
             THEN ReadHeaders(acc, format, i + 1)
             ELSE LET value == Native(s, format)[head_format]
                  IN  IF format = "sh" /\ head_format = "COMMENT"
                      THEN ReadHeaders(
                               [acc EXCEPT !.st.canon = Update(@, JsonLoads(value))],
                               format, i + 1)
                      ELSE LET s1 == IF format = "sac" /\ HasSacUnset(value) THEN s
                                     ELSE [s EXCEPT !.canon = Put(@, head, value)]
                               c == IF head \in _HEADER_CONVERSIONS[format]
                                    THEN __SAC2UTC(s1, head) ELSE KeyError
                           IN  IF c.k = "KeyError"
                               THEN ReadHeaders([acc EXCEPT !.st = s1], format, i + 1)
                               ELSE IF c.k = "TypeError"
                               THEN [acc EXCEPT !.st = s1, !.exc = "TypeError"]
                               ELSE ReadHeaders(
                                        [acc EXCEPT !.st =
                                            [s1 EXCEPT !.canon = Put(@, head, c)]],
                                        format, i + 1)

\* RFTrace._read_format_specific_header(format, warn): [st, exc, warn];
\* fmt = "None" stands for format=None
_read_format_specific_header(s, fmt, warn) ==
    IF fmt = "None" /\ s.format = "" THEN [st |-> s, exc |-> "none", warn |-> 0]
    ELSE LET f0 == Lower(IF fmt = "None" THEN s.format ELSE fmt)
             format == IF f0 = "q" THEN "sh" ELSE f0
         IN  IF format = "h5" THEN [st |-> s, exc |-> "none", warn |-> 0]
             ELSE IF format \notin DOMAIN FORMATHEADERS
             THEN [st |-> s, exc |-> "none", warn |-> IF warn THEN 1 ELSE 0]
             ELSE LET r == ReadHeaders(
                               [st |-> s, exc |-> "none", read_comment |-> FALSE],
                               format, 1)
                  IN  [st |-> r.st, exc |-> r.exc, warn |-> 0]

\* Trace.id: network.station.location.channel, as its dotted parts
TraceId(s) == <<s.network>> \o s.station \o <<s.location, s.channel>>

\* RFTrace.__init__(trace=..., warn): [st, exc, warn]
RFTrace_init(s, warn) ==
    LET s1 == IF s.format # "" /\ Upper(s.format) = "Q" /\ Len(s.station) > 1
              THEN [s EXCEPT !.network = s.station[1],
                             !.station = <<s.station[2]>>,
                             !.location = s.station[3]]
              ELSE s
    IN  _read_format_specific_header(s1, "None", warn)

(***************************************************************************)
(* Codec: initial traces and operations.  A run is one use of the codec:    *)
(* a decode, an encode and then a decode, or a write and then a read.      *)
(***************************************************************************)
HeaderSet == {HEADERS[i] : i \in 1..Len(HEADERS)}

TimeHeaders == {"event_time", "onset"}

\* the values a canonical field takes in the model: two numbers, or two
\* absolute times of which the second lies 12345 s before the start time
Vals(h) == IF h \in TimeHeaders THEN {Utc(100005), Utc(87655)}
           ELSE {Num(42), Num(0 - 7)}

BaseStats ==
    [canon |-> Empty, format |-> "", has |-> {}, sac |-> Empty, sh |-> Empty,
     reftime |-> 0, starttime |-> 100000,
     network |-> "NT", station |-> <<"STA">>, location |-> "", channel |-> "BHZ"]

\* the canonical fields of an initial trace: a few of them, or all
InitCanon ==
    UNION {{f \in [P -> UNION {Vals(h) : h \in P}] : \A h \in P : f[h] \in Vals(h)} :
           P \in {Q \in SUBSET HeaderSet : Cardinality(Q) <= MaxPresent}}
    \cup {[h \in HeaderSet |-> IF h \in TimeHeaders THEN Utc(100005) ELSE Num(42)]}

\* a SAC header as an older reader leaves it: every rf field unset
UnsetSac == [n \in {FORMATHEADERS.sac[i] : i \in 1..Len(HEADERS)} |-> Num(0 - 12345)]

\* the same header with the distance set by another tool
DistSac == Put(UnsetSac, "gcarc", Num(42))

\* initial traces: plain, or read from a SAC file that carries no rf headers
InitStats ==
    {[BaseStats EXCEPT !.canon = c] : c \in InitCanon}
    \cup {[BaseStats EXCEPT !.canon = c, !.format = "SAC", !.has = {"sac"},
                            !.sac = m, !.reftime = 99990] :
          c \in InitCanon, m \in {Empty, UnsetSac, DistSac}}

NoFile == [format |-> "", sac |-> Empty, sh |-> Empty, canon |-> Empty,
           reftime |-> 0, station |-> <<>>]

EncodeFormats == {"SAC", "sh", "Q", "H5", "MSEED"}
WriteFormats == {"SAC", "Q", "H5", "MSEED"}

\* tr._write_format_specific_header(f)
Encode(f) ==
    LET r == _write_format_specific_header(st, f)
    IN  /\ op.name = "init"
        /\ st' = r.st
        /\ op' = [name |-> "encode", format |-> f]
        /\ cexc' = r.exc
        /\ cwarn' = r.warn
        /\ UNCHANGED <<file, rd, gvars, rvars>>

\* tr._read_format_specific_header(f): f = "None" is RFTrace(trace=tr)
Decode(f) ==
    LET r == IF f = "None" THEN RFTrace_init(st, TRUE)
             ELSE _read_format_specific_header(st, f, TRUE)
    IN  /\ \/ op.name = "init"
           \/ op.name = "encode" /\ f \in {op.format, "None"}
        /\ st' = r.st
        /\ op' = [name |-> "decode", format |-> f]
        /\ cexc' = r.exc
        /\ cwarn' = r.warn
        /\ UNCHANGED <<file, rd, gvars, rvars>>

\* RFStream([tr]).write(filename, f), lines 113-126; the writer of the
\* waveform library persists the native sub-mapping of format f (a
\* self-describing H5 file the whole stats)
Write(f) ==
    LET r == _write_format_specific_header(st, f)
        s1 == IF Upper(f) = "Q" THEN [r.st EXCEPT !.station = TraceId(r.st)] ELSE r.st
        s2 == IF Upper(f) = "Q" THEN [s1 EXCEPT !.station = <<s1.station[2]>>] ELSE s1
    IN  /\ op.name = "init"
        /\ op' = [name |-> "write", format |-> f]
        /\ cexc' = r.exc
        /\ cwarn' = r.warn
        /\ IF r.exc # "none"
           THEN st' = r.st /\ UNCHANGED file
           ELSE /\ st' = s2
                /\ file' = [format |-> Upper(f),
                            sac |-> IF Upper(f) = "SAC" THEN s1.sac ELSE Empty,
                            sh |-> IF Upper(f) = "Q" THEN s1.sh ELSE Empty,
                            canon |-> IF Upper(f) = "H5" THEN s1.canon ELSE Empty,
                            reftime |-> s1.reftime,
                            station |-> s1.station]
        /\ UNCHANGED <<rd, gvars, rvars>>

\* the stats the reader of the waveform library attaches to a trace of the
\* file; fill: the reader lists unset SAC fields with the value -12345
FromFile(fill) ==
    [BaseStats EXCEPT
        !.format = file.format,
        !.has = IF file.format = "SAC" THEN {"sac"}
                ELSE IF file.format = "Q" THEN {"sh"} ELSE {},
        !.sac = IF file.format = "SAC" /\ fill THEN Update(UnsetSac, file.sac)
                ELSE file.sac,
        !.sh = file.sh,
        !.canon = file.canon,
        !.reftime = file.reftime,
        !.station = file.station]

\* read_rf(filename): RFStream(read(filename)), lines 78-84 and 103-111
Read ==
    /\ op.name = "write"
    /\ file.format # ""
    /\ \E fill \in BOOLEAN :
          LET r == RFTrace_init(FromFile(fill), TRUE)
          IN  /\ rd' = r.st
              /\ op' = [name |-> "read", format |-> file.format]
              /\ cexc' = r.exc
              /\ cwarn' = r.warn
    /\ UNCHANGED <<st, file, gvars, rvars>>

InitCodec ==
    /\ st \in InitStats
    /\ file = NoFile
    /\ rd = BaseStats
    /\ op = [name |-> "init", format |-> ""]
    /\ cexc = "none"
    /\ cwarn = 0

NextCodec ==
    \/ \E f \in EncodeFormats : Encode(f)
    \/ \E f \in EncodeFormats \cup {"None"} : Decode(f)
    \/ \E f \in WriteFormats : Write(f)
    \/ Read


(***************************************************************************)
(* Geometry engine: obj2stats and rfstats, lines 21-43 and 458-553         *)
(***************************************************************************)
\* the event of the model: two origins and two magnitudes; preferred_origin
\* and preferred_magnitude are 0 when none is designated
Origins == <<[latitude |-> Num(10), longitude |-> Num(20), depth |-> Num(15000),
              time |-> Utc(1000)],
             [latitude |-> Num(11), longitude |-> Num(20), depth |-> Num(33000),
              time |-> Utc(1003)]>>

Magnitudes == <<[mag |-> Num(6)], [mag |-> Num(7)]>>

NoneValue == [k |-> "None", v |-> 0]

\* event.preferred_origin(): the origin, or None
preferred_origin(event) ==
    IF event.preferred_origin = 0 THEN NoneValue
    ELSE event.origins[event.preferred_origin]

\* event.preferred_magnitude(): the magnitude, or None
preferred_magnitude(event) ==
    IF event.preferred_magnitude = 0 THEN NoneValue
    ELSE event.magnitudes[event.preferred_magnitude]

\* (event.preferred_origin() or event.origins[0])[h]
__get_event_origin(h, event) ==
    (IF preferred_origin(event) = NoneValue THEN event.origins[1]
     ELSE preferred_origin(event))[h]

\* the getter EVENT_GETTER pairs with key; None[...] is a TypeError
EventGetter(key, event) ==
    CASE key = "event_latitude" -> __get_event_origin("latitude", event)
      [] key = "event_longitude" -> __get_event_origin("longitude", event)
      [] key = "event_depth" ->
            IF preferred_origin(event) = NoneValue THEN TypeError
            ELSE Num(preferred_origin(event).depth.v \div 1000)
      [] key = "event_magnitude" ->
            IF preferred_magnitude(event) = NoneValue THEN TypeError
            ELSE preferred_magnitude(event).mag
      [] key = "event_time" -> __get_event_origin("time", event)

\* the getter STATION_GETTER pairs with key
StationGetter(key, station) ==
    CASE key = "station_latitude" -> station.latitude
      [] key = "station_longitude" -> station.longitude
      [] key = "station_elevation" -> station.elevation

RECURSIVE EventLoop(_, _, _)
\* the loop of lines 469-470 from getter i on: [stats, exc]
EventLoop(acc, event, i) ==
    IF i > Len(EVENT_GETTER) \/ acc.exc # "none" THEN acc
    ELSE LET val == EventGetter(EVENT_GETTER[i], event)
         IN  IF val = TypeError THEN [acc EXCEPT !.exc = "TypeError"]
             ELSE EventLoop([acc EXCEPT !.stats = Put(@, EVENT_GETTER[i], val)],
                            event, i + 1)

RECURSIVE StationLoop(_, _, _)
\* the loop of lines 472-473 from getter i on
StationLoop(stats, station, i) ==
    IF i > Len(STATION_GETTER) THEN stats
    ELSE StationLoop(Put(stats, STATION_GETTER[i],
                         StationGetter(STATION_GETTER[i], station)),
                     station, i + 1)

\* obj2stats(event, station): [stats, exc]; an argument that is None is the
\* value NoneValue
obj2stats(event, station) ==
    LET r == IF event # NoneValue
             THEN EventLoop([stats |-> Empty, exc |-> "none"], event, 1)
             ELSE [stats |-> Empty, exc |-> "none"]
    IN  IF r.exc # "none" THEN r
        ELSE IF station # NoneValue
        THEN [r EXCEPT !.stats = StationLoop(@, station, 1)]
        ELSE r

Abs(x) == IF x < 0 THEN 0 - x ELSE x

\* kilometer2degrees(gps2dist_azimuth(...)[0] / 1000) and the back azimuth,
\* for a station and an event on one meridian: the distance in degrees is
\* the difference of the latitudes
DistBaz(stats) ==
    [dist |-> Abs(stats["event_latitude"].v - stats["station_latitude"].v),
     baz |-> IF stats["event_latitude"].v >= stats["station_latitude"].v
             THEN 0 ELSE 180]

\* tt_model.get_travel_times(depth, dist, (phase,)): genv.narr[dist] arrivals
Arrivals(dist) ==
    [a \in 1..genv.narr[dist] |->
        [time |-> 300 + 10 * a, incident_angle |-> 20 + a,
         ray_param_sec_degree |-> 6 + a]]

\* model.ppoint(stats, pp_depth, phase): the piercing point is stored in stats
ppoint(stats, pp_depth) ==
    Update(stats, [h \in {"pp_latitude", "pp_longitude", "pp_depth"} |->
                      IF h = "pp_depth" THEN pp_depth
                      ELSE stats[IF h = "pp_latitude" THEN "station_latitude"
                                 ELSE "station_longitude"]])

\* dist_range: a pair, the text 'default', or None
Range(lo, hi) == [k |-> "range", lo |-> lo, hi |-> hi]
DefaultText == [k |-> "default", lo |-> 0, hi |-> 0]
NoRange == [k |-> "None", lo |-> 0, hi |-> 0]

\* the interval rfstats puts in place of dist_range='default' (line 520)
DefaultRange(phase) == IF phase = <<"P">> THEN Range(30, 90) ELSE Range(50, 85)

\* an interval test that leaves the upper bound out
InRange_Open(dist_range, dist) == dist_range.lo <= dist /\ dist < dist_range.hi

\* dist_range[0] <= dist <= dist_range[1]
InRange(dist_range, dist) == dist_range.lo <= dist /\ dist <= dist_range.hi

\* phase.upper(), on the characters of the phase name
UpperChars(phase) ==
    [i \in 1..Len(phase) |->
        CASE phase[i] = "p" -> "P" [] phase[i] = "s" -> "S" [] OTHER -> phase[i]]

\* lines 542-553: the values of the first arrival are stored, then the
\* piercing point
StoreArrival(s1, g, arrival, pp_depth) ==
    LET s2 == Update(s1,
                [h \in {"distance", "back_azimuth", "inclination", "onset",
                        "slowness"} |->
                    CASE h = "distance" -> Num(g.dist)
                      [] h = "back_azimuth" -> Num(g.baz)
                      [] h = "inclination" -> Num(arrival.incident_angle)
                      [] h = "onset" -> Utc(s1["event_time"].v + arrival.time)
                      [] h = "slowness" -> Num(arrival.ray_param_sec_degree)])
    IN  [stats |-> IF pp_depth # NoneValue THEN ppoint(s2, pp_depth) ELSE s2,
         ret |-> "stats", exc |-> "none", warn |-> 0]

\* lines 530-553, with the distance g and the arrivals at hand; with more
\* than one arrival msg % (phase, dist) is evaluated, and msg has one %s
FilterAndStore(s1, g, arrivals, dist_range, pp_depth) ==
    IF dist_range # NoRange /\ ~InRange(dist_range, g.dist)
    THEN [stats |-> s1, ret |-> "None", exc |-> "none", warn |-> 0]
    ELSE IF Len(arrivals) = 0
    THEN [stats |-> s1, ret |-> "raised", exc |-> "Exception", warn |-> 0]
    ELSE IF Len(arrivals) > 1
    THEN [stats |-> s1, ret |-> "raised", exc |-> "TypeError", warn |-> 0]
    ELSE StoreArrival(s1, g, arrivals[1], pp_depth)

\* lines 525-553, on the stats s1 that hold the coordinates
Locate(s1, g, dist_range, pp_depth) ==
    FilterAndStore(s1, g, Arrivals(g.dist), dist_range, pp_depth)

\* lines 523-553, o being what obj2stats gave
Merge(stats, o, dist_range, pp_depth) ==
    IF o.exc # "none"
    THEN [stats |-> stats, ret |-> "raised", exc |-> o.exc, warn |-> 0]
    ELSE Locate(Update(stats, o.stats), DistBaz(Update(stats, o.stats)),
                dist_range, pp_depth)

\* dist_range after lines 518-520, phase being phase.upper()
EffectiveRange(phase, dist_range) ==
    IF dist_range = DefaultText /\ IsSubstring(phase, <<"P", "S">>)
    THEN DefaultRange(phase) ELSE dist_range

\* rfstats(stats=stats, event, station, phase, dist_range, pp_depth), lines
\* 518-553: [stats, ret, exc, warn]
rfstats(stats, event, station, phase, dist_range, pp_depth) ==
    Merge(stats,
          IF event # NoneValue /\ station # NoneValue
          THEN obj2stats(event, station) ELSE [stats |-> Empty, exc |-> "none"],
          EffectiveRange(UpperChars(phase), dist_range), pp_depth)

\* rfstats(stats=tr.stats, **kwargs) for trace i of the stream
RfstatsOfTrace(i) ==
    rfstats(gs[i], genv.event, genv.station, genv.phase, genv.dist_range,
            genv.pp_depth)

\* the loop of lines 515-516 over the results r of the traces: they are
\* handled in order and the first exception ends the loop: [gs, exc, warn]
StreamLoop(r) ==
    LET raising == {i \in 1..Len(gs) : r[i].exc # "none"}
        reached(i) == \A j \in raising : i <= j
    IN  [gs |-> [i \in 1..Len(gs) |-> IF reached(i) THEN r[i].stats ELSE gs[i]],
         exc |-> IF raising = {} THEN "none"
                 ELSE r[CHOOSE i \in raising : reached(i)].exc,
         warn |-> 0]

(***************************************************************************)
(* Geometry engine: initial states and calls.  A run is one call.          *)
(***************************************************************************)
\* station latitudes: 29, 30, 50, 85, 90 and 91 degrees from latitude 10
StationLatitudes == {0 - 19, 0 - 20, 0 - 40, 0 - 75, 0 - 80, 0 - 81}

Events == {[origins |-> Origins, magnitudes |-> Magnitudes,
            preferred_origin |-> po, preferred_magnitude |-> pm] :
           po \in 0..Len(Origins), pm \in 0..Len(Magnitudes)}

Station(lat) == [latitude |-> Num(lat), longitude |-> Num(20), elevation |-> Num(100)]

\* stats that already carry the coordinates of station and event
FilledStats(lat) ==
    [h \in {"station_latitude", "station_longitude", "event_latitude",
            "event_longitude", "event_depth", "event_time"} |->
        CASE h = "station_latitude" -> Num(lat)
          [] h = "event_latitude" -> Num(10)
          [] h = "event_depth" -> Num(15)
          [] h = "event_time" -> Utc(1000)
          [] OTHER -> Num(20)]

\* the distances the travel time table is asked for in a run
AskedDistances(gs0, event, station) ==
    IF event # NoneValue
    THEN {Abs(__get_event_origin("latitude", event).v - station.latitude.v)}
    ELSE {DistBaz(gs0[i]).dist : i \in 1..Len(gs0)}

AllDistances == {Abs(o - l) : o \in {10, 11}, l \in StationLatitudes}

\* travel time tables: 0, 1 or 2 arrivals at each distance asked for
Tables(asked) ==
    {[d \in AllDistances |-> IF d \in asked THEN g[d] ELSE 1] : g \in [asked -> 0..2]}

Phases == {<<"P">>, <<"S">>, <<"p">>}

InitStatsEngine ==
    /\ \E n \in 1..MaxStream :
          \/ \E e \in Events, lat \in StationLatitudes :
                /\ gs = [i \in 1..n |-> Empty]
                /\ \E ph \in Phases, dr \in {DefaultText, NoRange},
                      pp \in {NoneValue, Num(50)},
                      t \in Tables(AskedDistances(<<>>, e, Station(lat))) :
                      genv = [event |-> e, station |-> Station(lat), phase |-> ph,
                              dist_range |-> dr, pp_depth |-> pp, narr |-> t]
          \/ \E lats \in [1..n -> StationLatitudes] :
                /\ gs = [i \in 1..n |-> FilledStats(lats[i])]
                /\ \E ph \in Phases, dr \in {DefaultText, NoRange},
                      pp \in {NoneValue, Num(50)},
                      t \in Tables(AskedDistances(gs, NoneValue, NoneValue)) :
                      genv = [event |-> NoneValue, station |-> NoneValue, phase |-> ph,
                              dist_range |-> dr, pp_depth |-> pp, narr |-> t]
    /\ gpc = "init"
    /\ gret = "none"
    /\ gexc = "none"
    /\ gwarn = 0

\* rfstats(stats=tr.stats, event=..., station=..., ...) on the one trace
CallRfstats ==
    /\ gpc = "init"
    /\ Len(gs) = 1
    /\ LET r == RfstatsOfTrace(1)
       IN  /\ gs' = <<r.stats>>
           /\ gret' = r.ret
           /\ gexc' = r.exc
           /\ gwarn' = r.warn
    /\ gpc' = "rfstats"
    /\ UNCHANGED <<genv, cvars, rvars>>

\* rfstats(stream=stream, event=..., station=..., ...), lines 509-517
CallRfstatsStream ==
    /\ gpc = "init"
    /\ LET r == StreamLoop([i \in 1..Len(gs) |-> RfstatsOfTrace(i)])
       IN  /\ gs' = r.gs
           /\ gret' = IF r.exc = "none" THEN "None" ELSE "raised"
           /\ gexc' = r.exc
           /\ gwarn' = r.warn
    /\ gpc' = "rfstats_stream"
    /\ UNCHANGED <<genv, cvars, rvars>>

\* obj2stats(event=event, station=station); gs holds the stats it returns
CallObj2stats ==
    /\ gpc = "init"
    /\ genv.event # NoneValue
    /\ LET r == obj2stats(genv.event, genv.station)
       IN  /\ gs' = IF r.exc = "none" THEN <<r.stats>> ELSE gs
           /\ gret' = IF r.exc = "none" THEN "stats" ELSE "raised"
           /\ gexc' = r.exc
    /\ gwarn' = 0
    /\ gpc' = "obj2stats"
    /\ UNCHANGED <<genv, cvars, rvars>>

NextStats == CallRfstats \/ CallRfstatsStream \/ CallObj2stats

(***************************************************************************)
(* Pipeline: RFStream.rotate, RFStream.deconvolve and RFStream.rf, lines   *)
(* 128-221.  Times are quarter seconds; a trace is [channel, onset,        *)
(* starttime, delta, data], delta being the quarter seconds per sample.    *)
(***************************************************************************)
NoArg == <<>>

\* tr.stats.sampling_rate, in samples per second
SamplingRate(tr) == 4 \div tr.delta

\* tr.stats.endtime
EndTime(tr) == tr.starttime + (Len(tr.data) - 1) * tr.delta

\* data[::-1]
Reverse(data) == [k \in 1..Len(data) |-> data[Len(data) + 1 - k]]

\* -data
Negate(data) == [k \in 1..Len(data) |-> 0 - data[k]]

\* c in text, for a character c
CharIn(c, text) == \E k \in 1..Len(text) : text[k] = c

\* Stream.filter(**filter) on one trace; the numbers stand for the filtered
\* samples
FilterTrace(tr) == [tr EXCEPT !.data = [k \in 1..Len(tr.data) |-> 2 * tr.data[k]]]

\* the sample positions of tr that lie in [t1, t2]
Kept(tr, t1, t2) ==
    {k \in 1..Len(tr.data) :
        /\ t1 <= tr.starttime + (k - 1) * tr.delta
        /\ tr.starttime + (k - 1) * tr.delta <= t2}

Min(S) == CHOOSE x \in S : \A y \in S : x <= y

\* Trace.trim(t1, t2): the samples in [t1, t2] stay
Trim(tr, keep) ==
    IF keep = {} THEN [tr EXCEPT !.data = <<>>]
    ELSE [tr EXCEPT !.data = [k \in 1..Cardinality(keep) |-> tr.data[Min(keep) + k - 1]],
                    !.starttime = tr.starttime + (Min(keep) - 1) * tr.delta]

\* line 194
WindowTrace(tr, window) ==
    Trim(tr, Kept(tr, tr.onset + window[1], tr.onset + window[2]))

\* Trace.decimate(factor): every factor-th sample stays
Decimate(tr, factor) ==
    [tr EXCEPT !.data = [k \in 1..((Len(tr.data) + factor - 1) \div factor) |->
                            tr.data[(k - 1) * factor + 1]],
               !.delta = tr.delta * factor]

\* lines 197-198: is decimate invoked on tr
DecimateInvoked(tr, downsample) == downsample <= SamplingRate(tr)

\* lines 197-198 on one trace
DownsampleTrace(tr, downsample) ==
    IF DecimateInvoked(tr, downsample)
    THEN Decimate(tr, SamplingRate(tr) \div downsample) ELSE tr

\* a mirroring that measures the new onset from the end of the trace alone
MirrorTrace_Unshifted(tr) ==
    [tr EXCEPT !.data = Reverse(tr.data),
               !.onset = EndTime(tr) - tr.onset]

\* lines 212-214 on one trace
MirrorTrace(tr) ==
    [tr EXCEPT !.data = Reverse(tr.data),
               !.onset = tr.starttime + (EndTime(tr) - tr.onset)]

\* a polarity step that negates the source components instead
PolarityTrace_Swapped(tr, source_components) ==
    IF CharIn(tr.channel[Len(tr.channel)], source_components)
    THEN [tr EXCEPT !.data = Negate(tr.data)] ELSE tr

\* lines 220-221 on one trace
PolarityTrace(tr, source_components) ==
    IF ~CharIn(tr.channel[Len(tr.channel)], source_components)
    THEN [tr EXCEPT !.data = Negate(tr.data)] ELSE tr

\* the objects of ts taken from changed, the others as they are in h
OnTraces(h, ts, changed) ==
    [id \in 1..Len(h) |-> IF \E k \in 1..Len(ts) : ts[k] = id THEN changed[id] ELSE h[id]]

\* the last trace of the run of equal key values that starts at position i
RunEnd(h, ts, i) ==
    CHOOSE j \in i..Len(ts) :
        /\ \A k \in i..j : h[ts[k]].onset = h[ts[i]].onset
        /\ j < Len(ts) => h[ts[j + 1]].onset # h[ts[i]].onset

RECURSIVE Runs(_, _, _)
\* the maximal runs of consecutive traces with one onset, from position i on
Runs(h, ts, i) ==
    IF i > Len(ts) THEN <<>>
    ELSE <<SubSeq(ts, i, RunEnd(h, ts, i))>> \o Runs(h, ts, RunEnd(h, ts, i) + 1)

AllowedSize(run) == Len(run) \in {2, 3}

\* IterMultipleComponents(stream, key='onset', number_components=(2, 3)):
\* the streams it yields, each as the identities of its traces
IterMultipleComponents(h, ts) == SelectSeq(Runs(h, ts, 1), AllowedSize)

\* RFStream.rotate(*args) on the stream ts, lines 134-136: for the first
\* group super(RFTrace, self) is evaluated with self an RFStream
RFStream_rotate(h, ts) ==
    IF Len(IterMultipleComponents(h, ts)) > 0 THEN "TypeError" ELSE "none"

\* the samples the deconvolution leaves; the numbers stand for them
Deconvolved(tr) == [tr EXCEPT !.data = [k \in 1..Len(tr.data) |-> tr.data[k] + 100]]

\* rf.deconvolve.deconvolve(stream, ...) on the traces ts: the traces it
\* returns and the objects after it. outcome "inplace": it writes into the
\* traces it was given and returns them; "new": it returns new traces
deconvolve(h, ts, outcome) ==
    IF outcome = "inplace"
    THEN [rsp |-> ts, heap |-> OnTraces(h, ts, [id \in 1..Len(h) |-> Deconvolved(h[id])])]
    ELSE [rsp |-> [k \in 1..Len(ts) |-> Len(h) + k],
          heap |-> h \o [k \in 1..Len(ts) |-> Deconvolved(h[ts[k]])]]

RECURSIVE DeconvolveGroups(_, _, _, _)
\* the loop of lines 203-206 from group i on: each stream3c.deconvolve(...)
\* (lines 145-146) gives the stream3c its rsp: [heap, subs]
DeconvolveGroups(acc, groups, outcomes, i) ==
    IF i > Len(groups) THEN acc
    ELSE DeconvolveGroups(
             [heap |-> deconvolve(acc.heap, groups[i], outcomes[i]).heap,
              subs |-> Append(acc.subs,
                              deconvolve(acc.heap, groups[i], outcomes[i]).rsp)],
             groups, outcomes, i + 1)

Call(prim, on, arg) == [prim |-> prim, on |-> on, arg |-> arg]

\* the decimate calls of the loop of lines 196-198
DecimateCalls(h, ts, downsample) ==
    LET invoked == SelectSeq(ts, LAMBDA id : DecimateInvoked(h[id], downsample))
    IN  [k \in 1..Len(invoked) |->
            Call("decimate", <<invoked[k]>>,
                 SamplingRate(h[invoked[k]]) \div downsample)]

(***************************************************************************)
(* Pipeline: initial streams and the steps of a call                       *)
(***************************************************************************)
Methods == {<<"P">>, <<"S">>, <<"P", "S">>, <<>>, <<"X">>}

NoParams == [method |-> <<"P">>, filter |-> FALSE, window |-> NoArg,
             downsample |-> 0, rotate |-> FALSE, deconvolve |-> FALSE,
             source_components |-> <<"L", "Z">>]

\* the arguments of rf: filter, rotate and deconvolve are given or not, a
\* window is a pair or NoArg, downsample a rate or 0 for None
Params ==
    {[method |-> m, filter |-> f, window |-> w, downsample |-> d, rotate |-> r,
      deconvolve |-> dc, source_components |-> <<"L", "Z">>] :
     m \in Methods, f \in BOOLEAN, w \in {NoArg, <<0 - 2, 2>>}, d \in {0, 2, 3},
     r \in BOOLEAN, dc \in BOOLEAN}

\* trace i of an initial stream: samples 10i+1, 10i+2, ... from time 8 on
InitTrace(i, cha, onset, delta) ==
    [channel |-> <<"B", "H", cha>>, onset |-> onset, starttime |-> 8,
     delta |-> delta, data |-> [k \in 1..NPts |-> 10 * i + k]]

\* rf(method, filter, window, downsample, rotate, deconvolve, ...): line 188
CallRf(p) ==
    /\ rpc = "idle"
    /\ rfp' = p
    /\ IF ~IsSubstring(p.method, <<"P", "S">>)
       THEN rpc' = "raised" /\ rexc' = "NotImplementedError"
       ELSE rpc' = "filter" /\ rexc' = rexc
    /\ UNCHANGED <<heap, traces, subs, calls, stacked, cvars, gvars>>

\* lines 190-191
FilterStage ==
    /\ rpc = "filter"
    /\ rpc' = "window"
    /\ IF rfp.filter
       THEN /\ heap' = OnTraces(heap, traces, [id \in 1..Len(heap) |-> FilterTrace(heap[id])])
            /\ calls' = Append(calls, Call("filter", traces, 0))
       ELSE UNCHANGED <<heap, calls>>
    /\ UNCHANGED <<traces, subs, rfp, rexc, stacked, cvars, gvars>>

\* lines 192-194
WindowStage ==
    /\ rpc = "window"
    /\ rpc' = "downsample"
    /\ IF rfp.window # NoArg
       THEN /\ heap' = OnTraces(heap, traces,
                                [id \in 1..Len(heap) |-> WindowTrace(heap[id], rfp.window)])
            /\ calls' = calls \o [k \in 1..Len(traces) |-> Call("trim", <<traces[k]>>, 0)]
       ELSE UNCHANGED <<heap, calls>>
    /\ UNCHANGED <<traces, subs, rfp, rexc, stacked, cvars, gvars>>

\* lines 195-198
DownsampleStage ==
    /\ rpc = "downsample"
    /\ rpc' = "rotate"
    /\ IF rfp.downsample # 0
       THEN /\ heap' = OnTraces(heap, traces,
                                [id \in 1..Len(heap) |->
                                    DownsampleTrace(heap[id], rfp.downsample)])
            /\ calls' = calls \o DecimateCalls(heap, traces, rfp.downsample)
       ELSE UNCHANGED <<heap, calls>>
    /\ UNCHANGED <<traces, subs, rfp, rexc, stacked, cvars, gvars>>

\* lines 199-201: stream3c.rotate(rotate) is RFStream.rotate on the group
RotateStage ==
    /\ rpc = "rotate"
    /\ IF rfp.rotate /\ RFStream_rotate(heap, traces) # "none"
       THEN rpc' = "raised" /\ rexc' = RFStream_rotate(heap, traces)
       ELSE rpc' = "deconvolve" /\ rexc' = rexc
    /\ UNCHANGED <<heap, traces, subs, rfp, calls, stacked, cvars, gvars>>

\* lines 202-206
DeconvolveStage ==
    /\ rpc = "deconvolve"
    /\ rpc' = "mirror"
    /\ IF rfp.deconvolve
       THEN \E outcomes \in [1..Len(IterMultipleComponents(heap, traces)) ->
                               {"inplace", "new"}] :
               LET r == DeconvolveGroups([heap |-> heap, subs |-> <<>>],
                                         IterMultipleComponents(heap, traces),
                                         outcomes, 1)
               IN  heap' = r.heap /\ subs' = r.subs
       ELSE UNCHANGED <<heap, subs>>
    /\ UNCHANGED <<traces, rfp, rexc, calls, stacked, cvars, gvars>>

\* lines 210-214
MirrorStage ==
    /\ rpc = "mirror"
    /\ rpc' = "polarity"
    /\ IF rfp.method = <<"S">>
       THEN heap' = OnTraces(heap, traces, [id \in 1..Len(heap) |-> MirrorTrace(heap[id])])
       ELSE UNCHANGED heap
    /\ UNCHANGED <<traces, subs, rfp, rexc, calls, stacked, cvars, gvars>>

\* lines 219-221
PolarityStage ==
    /\ rpc = "polarity"
    /\ rpc' = "done"
    /\ heap' = OnTraces(heap, traces,
                        [id \in 1..Len(heap) |->
                            PolarityTrace(heap[id], rfp.source_components)])
    /\ UNCHANGED <<traces, subs, rfp, rexc, calls, stacked, cvars, gvars>>

\* stream.rotate(spec) called directly, lines 128-136
CallRotate ==
    /\ rpc = "idle"
    /\ IF RFStream_rotate(heap, traces) # "none"
       THEN rpc' = "raised" /\ rexc' = RFStream_rotate(heap, traces)
       ELSE rpc' = "rotated" /\ rexc' = rexc
    /\ UNCHANGED <<heap, traces, subs, rfp, calls, stacked, cvars, gvars>>

\* stream.deconvolve(...) called directly, lines 138-146
CallDeconvolve ==
    /\ rpc = "idle"
    /\ rpc' = "deconvolved"
    /\ \E outcome \in {"inplace", "new"} :
          /\ heap' = deconvolve(heap, traces, outcome).heap
          /\ traces' = deconvolve(heap, traces, outcome).rsp
    /\ UNCHANGED <<subs, rfp, rexc, calls, stacked, cvars, gvars>>

\* tr.id: network.station.location.channel, as its four parts
Id(tr) == <<"NT", "STA", "", tr.channel>>

\* line 281: set(tr.id for tr in self)
Ids(h, ts) == {Id(h[ts[k]]) : k \in 1..Len(ts)}

\* the orders in which the loop of line 283 can go through the set ids
Orders(ids) ==
    {o \in [1..Cardinality(ids) -> ids] :
        \A i, j \in 1..Cardinality(ids) : i # j => o[i] # o[j]}

\* line 285: the traces of self with tr.id == id, in the order of self
WithId(h, ts, id) == SelectSeq(ts, LAMBDA t : Id(h[t]) = id)

RECURSIVE SumSample(_, _, _)
\* the sum of sample j over the traces ms
SumSample(h, ms, j) ==
    IF Len(ms) = 0 THEN 0 ELSE h[Head(ms)].data[j] + SumSample(h, Tail(ms), j)

\* np.mean([...], axis=0) over the traces ms: each sample a fraction num/den
Mean(h, ms) ==
    [j \in 1..Len(h[ms[1]].data) |-> [num |-> SumSample(h, ms, j), den |-> Len(ms)]]

\* the variable tr after the list comprehension of line 285, which runs
\* through all of self: the last trace of the stream
LeakedTrace(h, ts) == h[ts[Len(ts)]]

\* lines 284-290 for one id: the new RFTrace, whose starttime is the
\* default 0 as the header names none
StackId(h, ts, id) ==
    [network |-> id[1], station |-> id[2], location |-> id[3], channel |-> id[4],
     delta |-> 4 \div SamplingRate(LeakedTrace(h, ts)),
     starttime |-> 0,
     onset |-> 0 + (LeakedTrace(h, ts).onset - LeakedTrace(h, ts).starttime),
     data |-> Mean(h, WithId(h, ts, id))]

\* RFStream.stack, lines 275-292, going through the ids in the given order
stack(h, ts, order) == [k \in 1..Len(order) |-> StackId(h, ts, order[k])]

\* stream.stack() called directly
CallStack ==
    /\ rpc = "idle"
    /\ rpc' = "stacked"
    /\ \E order \in Orders(Ids(heap, traces)) : stacked' = stack(heap, traces, order)
    /\ UNCHANGED <<heap, traces, subs, rfp, rexc, calls, cvars, gvars>>

NextRF ==
    \/ \E p \in Params : CallRf(p)
    \/ FilterStage
    \/ WindowStage
    \/ DownsampleStage
    \/ RotateStage
    \/ DeconvolveStage
    \/ MirrorStage
    \/ PolarityStage
    \/ CallRotate
    \/ CallDeconvolve
    \/ CallStack

(***************************************************************************)
(* Claims on the header codec (SpecCodec)                                  *)
(***************************************************************************)
\* C1: a trace written in format sac or q and read back carries every
\* canonical field that the written trace carries, with the same value.
C1_RoundTrip ==
    (op.name = "read" /\ op.format \in {"SAC", "Q"}) =>
        \A h \in DOMAIN st.canon :
            h \in DOMAIN rd.canon /\ rd.canon[h] = st.canon[h]

\* the format a decode with argument f works on
DecodeFormat(s, f) ==
    LET f0 == Lower(IF f = "None" THEN s.format ELSE f)
    IN  IF f0 = "q" THEN "sh" ELSE f0

\* C7: a decode of the SAC header leaves a canonical field as it was (absent,
\* or with its value) when the native field holds -12345, and copies every
\* native field that is present and does not hold it (onset and event_time
\* as reference time plus offset).
C7_SentinelSkipped ==
    [][(op'.name = "decode" /\ (op'.format = "None" => st.format # "")
        /\ DecodeFormat(st, op'.format) = "sac" /\ "sac" \in st.has) =>
          \A i \in 1..Len(HEADERS) :
             LET head == HEADERS[i]
                 head_format == FORMATHEADERS.sac[i]
             IN  head_format \in DOMAIN st.sac =>
                   IF HasSacUnset(st.sac[head_format])
                   THEN /\ (head \in DOMAIN st'.canon) = (head \in DOMAIN st.canon)
                        /\ head \in DOMAIN st.canon => st'.canon[head] = st.canon[head]
                   ELSE /\ head \in DOMAIN st'.canon
                        /\ st'.canon[head] =
                              IF head \in _HEADER_CONVERSIONS.sac
                              THEN Utc(st.reftime + st.sac[head_format].v)
                              ELSE st.sac[head_format]]_vars

(***************************************************************************)
(* Claims on the pipeline (SpecRF)                                         *)
(***************************************************************************)
RECURSIVE Flatten(_)
Flatten(ss) == IF Len(ss) = 0 THEN <<>> ELSE Head(ss) \o Flatten(Tail(ss))

\* C2: after the deconvolve stage of rf over at least one group, self.traces
\* is made of the traces the deconvolution returned for the groups, group
\* after group.
C2_CollectionRebuilt ==
    (rpc \in {"mirror", "polarity", "done"} /\ rfp.deconvolve /\ Len(subs) > 0) =>
        traces = Flatten(subs)

\* C3: with a method other than 'P' and 'S', rf raises NotImplementedError
\* and no primitive has been invoked.
C3_MethodValidated ==
    (rpc \notin {"idle", "rotated", "deconvolved"}
     /\ rfp.method \notin {<<"P">>, <<"S">>}) =>
        (rpc = "raised" /\ rexc = "NotImplementedError" /\ calls = <<>>)

\* C4: rotating raises nothing, and once the rotate stage of rf or a direct
\* stream.rotate is over, Stream.rotate has been invoked on every group.
C4_RotateCompletes ==
    /\ rexc # "TypeError"
    /\ ((rpc = "deconvolve" /\ rfp.rotate) \/ rpc = "rotated") =>
          \A i \in 1..Len(IterMultipleComponents(heap, traces)) :
             \E c \in 1..Len(calls) :
                /\ calls[c].prim = "rotate"
                /\ calls[c].on = IterMultipleComponents(heap, traces)[i]

\* C5: the mirroring step of rf turns the samples of every trace of the
\* stream around and sets onset to starttime + (endtime - onset) when the
\* method is 'S'; with method 'P' it changes neither samples nor onset.
C5_Mirror ==
    [][(rpc = "mirror" /\ rpc' = "polarity") =>
          \A k \in 1..Len(traces) :
             LET tr == heap[traces[k]]
                 after == heap'[traces[k]]
             IN  /\ rfp.method = <<"S">> =>
                      /\ Len(after.data) = Len(tr.data)
                      /\ \A j \in 1..Len(tr.data) :
                            after.data[j] = tr.data[Len(tr.data) + 1 - j]
                      /\ after.onset =
                            tr.starttime
                            + ((tr.starttime + (Len(tr.data) - 1) * tr.delta)
                               - tr.onset)
                 /\ rfp.method = <<"P">> =>
                      after.data = tr.data /\ after.onset = tr.onset]_vars

\* rf with method 'S' has deconvolved a group and mirrored the traces
C5_Witness ==
    /\ rpc = "polarity" /\ rfp.method = <<"S">> /\ rfp.deconvolve /\ Len(subs) > 0
    /\ \E k \in 1..Len(traces) :
          /\ Len(heap[traces[k]].data) > 1
          /\ heap[traces[k]].data[1] > heap[traces[k]].data[2]
          /\ heap[traces[k]].onset # 10 /\ heap[traces[k]].onset # 12

\* C6: the last step of rf negates every sample of the traces whose channel
\* does not end in one of source_components, and leaves the other traces.
C6_Polarity ==
    [][(rpc = "polarity" /\ rpc' = "done") =>
          \A k \in 1..Len(traces) :
             LET tr == heap[traces[k]]
                 after == heap'[traces[k]]
                 source == \E c \in 1..Len(rfp.source_components) :
                              rfp.source_components[c] = tr.channel[Len(tr.channel)]
             IN  /\ Len(after.data) = Len(tr.data)
                 /\ \A j \in 1..Len(tr.data) :
                       after.data[j] = IF source THEN tr.data[j] ELSE 0 - tr.data[j]]_vars

\* rf has deconvolved a group and ended with a negated and a kept trace
C6_Witness ==
    /\ rpc = "done" /\ rfp.deconvolve /\ Len(subs) > 0
    /\ \E k \in 1..Len(traces) : heap[traces[k]].data[1] < 0
    /\ \E k \in 1..Len(traces) : heap[traces[k]].data[1] > 0

\* C12: the resample stage of rf invokes decimate, with the factor
\* floor(rate / target), on exactly the traces whose sampling rate is above
\* the target rate; a trace at or below the target rate is left as it is,
\* and no sampling rate goes up.
C12_Resample ==
    [][(rpc = "downsample" /\ rpc' = "rotate" /\ rfp.downsample # 0
        /\ rfp.method \in {<<"P">>, <<"S">>}) =>
          \A k \in 1..Len(traces) :
             LET tr == heap[traces[k]]
                 after == heap'[traces[k]]
                 rate == 4 \div tr.delta
                 decimated == {c \in 1..Len(calls') :
                                  /\ calls'[c].prim = "decimate"
                                  /\ calls'[c].on = <<traces[k]>>}
             IN  /\ IF rate > rfp.downsample
                    THEN /\ Cardinality(decimated) = 1
                         /\ \A c \in decimated :
                               calls'[c].arg = rate \div rfp.downsample
                    ELSE decimated = {} /\ after = tr
                 /\ 4 \div after.delta <= rate]_vars

\* the traces of the stream all carry the onset offset of their identity
SameOffsetPerId ==
    \A a, b \in 1..Len(traces) :
        heap[traces[a]].channel = heap[traces[b]].channel =>
            heap[traces[a]].onset - heap[traces[a]].starttime
                = heap[traces[b]].onset - heap[traces[b]].starttime

RECURSIVE SampleSum(_, _)
\* the sum of sample j over the traces at the positions S of the stream
SampleSum(S, j) ==
    IF S = {} THEN 0
    ELSE LET m == CHOOSE x \in S : TRUE
         IN  heap[traces[m]].data[j] + SampleSum(S \ {m}, j)

\* C11: stack returns one trace per distinct identity of the stream, whose
\* samples are the sample-wise mean of the traces with that identity and
\* whose onset minus start time is that of the traces with that identity;
\* the stream itself is left as it was.
C11_Stack ==
    [][(rpc = "idle" /\ rpc' = "stacked" /\ SameOffsetPerId) =>
          /\ heap' = heap /\ traces' = traces
          /\ \A r \in 1..Len(stacked') :
                \E k \in 1..Len(traces) : heap[traces[k]].channel = stacked'[r].channel
          /\ \A k \in 1..Len(traces) :
                LET tr == heap[traces[k]]
                    same == {m \in 1..Len(traces) : heap[traces[m]].channel = tr.channel}
                    found == {r \in 1..Len(stacked') : stacked'[r].channel = tr.channel}
                IN  /\ Cardinality(found) = 1
                    /\ \A r \in found :
                          /\ stacked'[r].network = "NT"
                          /\ stacked'[r].station = "STA"
                          /\ stacked'[r].location = ""
                          /\ Len(stacked'[r].data) = Len(tr.data)
                          /\ \A j \in 1..Len(tr.data) :
                                /\ stacked'[r].data[j].den > 0
                                /\ stacked'[r].data[j].num * Cardinality(same)
                                      = SampleSum(same, j) * stacked'[r].data[j].den
                          /\ stacked'[r].onset - stacked'[r].starttime
                                = tr.onset - tr.starttime]_vars

(***************************************************************************)
(* Claims on the geometry engine (SpecStats)                               *)
(***************************************************************************)
\* the stats of trace i hold the coordinates
Located(i) == {"station_latitude", "event_latitude"} \subseteq DOMAIN gs[i]

\* epicentral distance of trace i in degrees
Distance(i) == Abs(gs[i]["event_latitude"].v - gs[i]["station_latitude"].v)

\* the distance of trace i is outside the default interval of the phase
Outside(i) ==
    IF genv.phase \in {<<"P">>, <<"p">>}
    THEN Distance(i) < 30 \/ Distance(i) > 90
    ELSE Distance(i) < 50 \/ Distance(i) > 85

RayFields == {"distance", "back_azimuth", "inclination", "onset", "slowness"}

\* C8: rfstats of a pair whose phase has two arrivals warns once, raises
\* nothing and stores onset, inclination and slowness of the first arrival;
\* with no arrival it raises and stores none of the three.
C8_AmbiguousArrival ==
    (gpc = "rfstats" /\ Located(1)
     /\ (genv.dist_range = NoRange \/ ~Outside(1))) =>
        /\ genv.narr[Distance(1)] > 1 =>
              /\ gwarn = 1 /\ gexc = "none"
              /\ {"onset", "inclination", "slowness"} \subseteq DOMAIN gs[1]
              /\ gs[1]["onset"] = Utc(gs[1]["event_time"].v + 310)
              /\ gs[1]["inclination"] = Num(21)
              /\ gs[1]["slowness"] = Num(7)
        /\ genv.narr[Distance(1)] = 0 =>
              /\ gexc = "Exception"
              /\ {"onset", "inclination", "slowness"} \cap DOMAIN gs[1] = {}

\* C9: with dist_range 'default', rfstats returns None exactly for a
\* distance outside [30, 90] (phase P) or [50, 85] (phase S) and then stores
\* no ray field; over a stream that raises nothing every trace inside the
\* interval gets its ray fields, whatever traces were excluded.
C9_DistanceFilter ==
    /\ (gpc = "rfstats" /\ genv.dist_range = DefaultText /\ Located(1)) =>
          /\ (gret = "None") = Outside(1)
          /\ Outside(1) => RayFields \cap DOMAIN gs[1] = {}
    /\ (gpc = "rfstats_stream" /\ genv.dist_range = DefaultText /\ gexc = "none") =>
          \A i \in 1..Len(gs) :
             IF Outside(i) THEN RayFields \cap DOMAIN gs[i] = {}
             ELSE RayFields \subseteq DOMAIN gs[i]

\* a stream whose first trace is excluded at 91 degrees and whose second
\* trace, at 90 degrees, is processed
C9_Witness ==
    /\ gpc = "rfstats_stream" /\ genv.dist_range = DefaultText /\ gexc = "none"
    /\ genv.phase = <<"P">> /\ Len(gs) = 2
    /\ Distance(1) = 91 /\ "distance" \notin DOMAIN gs[1]
    /\ Distance(2) = 90 /\ gs[2]["distance"] = Num(90)

\* the origin and the magnitude the preference rule names
RuleOrigin ==
    genv.event.origins[IF genv.event.preferred_origin = 0 THEN 1
                       ELSE genv.event.preferred_origin]

RuleMagnitude ==
    genv.event.magnitudes[IF genv.event.preferred_magnitude = 0 THEN 1
                          ELSE genv.event.preferred_magnitude]

\* C10: obj2stats raises nothing and takes the five event fields from the
\* preferred origin and magnitude, or from the first listed ones when none
\* is designated.
C10_PreferenceRule ==
    gpc = "obj2stats" =>
        /\ gexc = "none"
        /\ gs[1]["event_latitude"] = RuleOrigin.latitude
        /\ gs[1]["event_longitude"] = RuleOrigin.longitude
        /\ gs[1]["event_depth"] = Num(RuleOrigin.depth.v \div 1000)
        /\ gs[1]["event_time"] = RuleOrigin.time
        /\ gs[1]["event_magnitude"] = RuleMagnitude.mag

(***************************************************************************)
(* Specifications                                                          *)
(***************************************************************************)
IdleEnv == [event |-> NoneValue, station |-> NoneValue, phase |-> <<"P">>,
            dist_range |-> DefaultText, pp_depth |-> NoneValue,
            narr |-> [d \in AllDistances |-> 1]]

InitOfCodec ==
    /\ InitCodec
    /\ gs = <<>> /\ genv = IdleEnv /\ gpc = "idle" /\ gret = "none"
    /\ gexc = "none" /\ gwarn = 0
    /\ heap = <<>> /\ traces = <<>> /\ subs = <<>> /\ rfp = NoParams
    /\ rpc = "off" /\ rexc = "none" /\ calls = <<>> /\ stacked = <<>>

InitOfStats ==
    /\ InitStatsEngine
    /\ st = BaseStats /\ file = NoFile /\ rd = BaseStats
    /\ op = [name |-> "idle", format |-> ""] /\ cexc = "none" /\ cwarn = 0
    /\ heap = <<>> /\ traces = <<>> /\ subs = <<>> /\ rfp = NoParams
    /\ rpc = "off" /\ rexc = "none" /\ calls = <<>> /\ stacked = <<>>

InitOfRF ==
    /\ \E n \in 1..MaxTraces, delta \in {1, 2} :
          \E chas \in [1..n -> {"Z", "N"}], onsets \in [1..n -> {10, 12}] :
             /\ heap = [i \in 1..n |-> InitTrace(i, chas[i], onsets[i], delta)]
             /\ traces = [i \in 1..n |-> i]
    /\ subs = <<>> /\ rfp = NoParams /\ rpc = "idle" /\ rexc = "none"
    /\ calls = <<>> /\ stacked = <<>>
    /\ st = BaseStats /\ file = NoFile /\ rd = BaseStats
    /\ op = [name |-> "idle", format |-> ""] /\ cexc = "none" /\ cwarn = 0
    /\ gs = <<>> /\ genv = IdleEnv /\ gpc = "idle" /\ gret = "none"
    /\ gexc = "none" /\ gwarn = 0

SpecCodec == InitOfCodec /\ [][NextCodec]_vars

SpecStats == InitOfStats /\ [][NextStats]_vars

SpecRF == InitOfRF /\ [][NextRF]_vars

====
